---- MODULE Spec2Model ----
(***************************************************************************)
(* Model of dijkstra1.py: the graph-building loop of                       *)
(* get_tailscale_network, dijkstra, reconstruct_path and the control flow  *)
(* of TailscaleGUI.run_analysis.                                           *)
(*                                                                         *)
(* Node identifiers (DNS names) are the integers 1..NumNodes; their        *)
(* integer order stands for Python's string order, which heapq uses to     *)
(* break ties between (distance, node) tuples.  Latencies are the integers *)
(* 0..MaxWeight (the regular expression of the probe admits no sign).      *)
(* A state of the model is a state of the program at a loop head or at a   *)
(* call/return; the body of one loop iteration is one step.                *)
(***************************************************************************)
EXTENDS Integers, Sequences, FiniteSets

\* ---------------------------------------------------------------- bounds
NumNodes == 3
MaxWeight == 1
\* successful probes in one run of run_analysis (Spec)
MaxOk == 2
\* edges of the graphs handed to dijkstra directly (DijkSpec)
MaxEdges == 3

\* ------------------------------------------------------------- constants
\* Python's None in previous_nodes and as the end of the backward walk
None == 0
\* an entry field that is empty after strip()
Blank == 0

Names == 1..NumNodes
Weights == 0..MaxWeight
\* float('inf'): above every finite distance the bounded weights can add up to
Inf == NumNodes * MaxWeight + 1
\* the backward walk of reconstruct_path has no bound of its own; the model
\* stops following it here
MaxWalk == NumNodes + 2

Range(s) == {s[x] : x \in 1..Len(s)}

Ascending(n) == [x \in 1..n |-> x]
\* the lists of distinct DNS names that discovery returns: the first n names,
\* for every n.  The order of the list decides only the order in which one
\* node's neighbours are probed and relaxed; relaxations of different
\* neighbours change different entries, and the queue is ordered by its
\* entries, not by the order of the pushes.
NodeLists == {Ascending(n) : n \in 0..NumNodes}

VARIABLES
    pc,               \* position in run_analysis / the called function
    start, end,       \* run_analysis: the stripped entry fields
    nodes,            \* get_tailscale_network: nodes
    graph,            \* the graph (dict of dicts)
    i, j,             \* positions of src and dst in nodes
    probed,           \* history: per ordered pair, the outcomes of its probes
    lastProbe,        \* history: how the latest probe ended
    distances, previous_nodes, priority_queue,
    current_distance, current_node,
    k,                \* position in graph[current_node].items()
    expanded,         \* history: times each node's neighbours were relaxed
    path, rp_end,     \* reconstruct_path: path and its local end
    message,          \* what run_analysis showed last
    dijkstra_calls    \* history: calls of dijkstra

vars == <<pc, start, end, nodes, graph, i, j, probed, lastProbe, distances,
          previous_nodes, priority_queue, current_distance, current_node, k,
          expanded, path, rp_end, message, dijkstra_calls>>

buildVars == <<nodes, graph, i, j, probed, lastProbe>>
dijkVars == <<distances, previous_nodes, priority_queue, current_distance,
              current_node, k, expanded>>
walkVars == <<path, rp_end>>

EmptyDict == [x \in {} |-> 0]

\* ------------------------------------------------- get_tailscale_network
\* no key until a first edge is recorded
EmptyGraphNoKeys(ns) == EmptyDict

\* graph = {node: {} for node in nodes}
EmptyGraph(ns) == [n \in Range(ns) |-> EmptyDict]

\* if src == dst: continue
IsSelfPair(src, dst) == src = dst

\* graph[dst][src] = latency
RecordEdgeReversed(g, src, dst, latency) ==
    [g EXCEPT ![dst] = [d \in DOMAIN g[dst] \cup {src} |->
                            IF d = src THEN latency ELSE g[dst][d]]]

\* graph[src][dst] = latency
RecordEdge(g, src, dst, latency) ==
    [g EXCEPT ![src] = [d \in DOMAIN g[src] \cup {dst} |->
                            IF d = dst THEN latency ELSE g[src][d]]]

\* the inner for advances; at its end the outer for advances
StepLoops ==
    IF j < Len(nodes)
    THEN i' = i /\ j' = j + 1 /\ pc' = "probe"
    ELSE IF i < Len(nodes)
         THEN i' = i + 1 /\ j' = 1 /\ pc' = "probe"
         ELSE i' = i /\ j' = j /\ pc' = "built"

NoProbes == [p \in Names \X Names |-> <<>>]
Answer(latency) == [ok |-> TRUE, latency |-> latency]
NoEdge == [ok |-> FALSE, latency |-> 0]
LogProbe(src, dst, outcome) ==
    probed' = [probed EXCEPT ![<<src, dst>>] = Append(@, outcome)]
EdgeCount(g) == Cardinality({p \in (DOMAIN g) \X Names : p[2] \in DOMAIN g[p[1]]})

\* run_analysis, lines 113-122: the button is pressed with the two entries
\* holding s and e.  Line 114 clears the output and everything else is local
\* to the call, so every press starts from the state Init describes.
RunAnalysis(s, e) ==
    /\ pc = "idle"
    /\ start' = s /\ end' = e
    /\ IF s = Blank \/ e = Blank
       THEN message' = "incomplete" /\ pc' = "done"
       ELSE message' = "scanning" /\ pc' = "discover"
    /\ UNCHANGED <<buildVars, dijkVars, walkVars, dijkstra_calls>>

\* lines 15-20: tailscale status fails or prints no JSON
DiscoverFails ==
    /\ pc = "discover"
    /\ message' = "error"
    /\ graph' = EmptyDict
    /\ pc' = "validate"
    /\ UNCHANGED <<start, end, nodes, i, j, probed, lastProbe, dijkVars,
                   walkVars, dijkstra_calls>>

\* line 22: the JSON has no usable 'Peer' table; the exception leaves
\* run_analysis
DiscoverRaises ==
    /\ pc = "discover"
    /\ message' = "exception"
    /\ pc' = "done"
    /\ UNCHANGED <<start, end, buildVars, dijkVars, walkVars, dijkstra_calls>>

\* lines 22-25
Discover(ns) ==
    /\ pc = "discover"
    /\ nodes' = ns
    /\ graph' = EmptyGraph(ns)
    /\ i' = 1 /\ j' = 1
    /\ pc' = IF ns = <<>> THEN "built" ELSE "probe"
    /\ UNCHANGED <<start, end, probed, lastProbe, dijkVars, walkVars, message,
                   dijkstra_calls>>

\* lines 27-28
SkipSelf ==
    /\ pc = "probe"
    /\ IsSelfPair(nodes[i], nodes[j])
    /\ StepLoops
    /\ UNCHANGED <<start, end, nodes, graph, probed, lastProbe, dijkVars,
                   walkVars, message, dijkstra_calls>>

\* lines 29-39: the ping answers with a latency
ProbeOk(latency) ==
    /\ pc = "probe"
    /\ ~IsSelfPair(nodes[i], nodes[j])
    /\ EdgeCount(graph) < MaxOk
    /\ graph' = RecordEdge(graph, nodes[i], nodes[j], latency)
    /\ LogProbe(nodes[i], nodes[j], Answer(latency))
    /\ lastProbe' = "ok"
    /\ StepLoops
    /\ UNCHANGED <<start, end, nodes, dijkVars, walkVars, message, dijkstra_calls>>

\* lines 29-36, 40-41: the output of the ping holds no latency
ProbeNoAnswer ==
    /\ pc = "probe"
    /\ ~IsSelfPair(nodes[i], nodes[j])
    /\ LogProbe(nodes[i], nodes[j], NoEdge)
    /\ lastProbe' = "noanswer"
    /\ StepLoops
    /\ UNCHANGED <<start, end, nodes, graph, dijkVars, walkVars, message,
                   dijkstra_calls>>

\* lines 29-34, 42-43: subprocess.run raises
ProbeRaises ==
    /\ pc = "probe"
    /\ ~IsSelfPair(nodes[i], nodes[j])
    /\ LogProbe(nodes[i], nodes[j], NoEdge)
    /\ lastProbe' = "raise"
    /\ StepLoops
    /\ UNCHANGED <<start, end, nodes, graph, dijkVars, walkVars, message,
                   dijkstra_calls>>

\* line 45: the graph is returned; the outcome of the last probe was local to
\* the loop body
BuildReturn ==
    /\ pc = "built"
    /\ pc' = "validate"
    /\ lastProbe' = "none"
    /\ UNCHANGED <<start, end, nodes, graph, i, j, probed, dijkVars, walkVars,
                   message, dijkstra_calls>>

\* start in graph or end in graph
InGraphEither(s, e, g) == s \in DOMAIN g \/ e \in DOMAIN g

\* line 125: start in graph and end in graph
InGraph(s, e, g) == s \in DOMAIN g /\ e \in DOMAIN g

\* lines 125-127
Validate ==
    /\ pc = "validate"
    /\ IF InGraph(start, end, graph)
       THEN pc' = "call_dijkstra" /\ message' = message
       ELSE pc' = "done" /\ message' = "invalid"
    /\ UNCHANGED <<start, end, buildVars, dijkVars, walkVars, dijkstra_calls>>

\* ---------------------------------------------------------------- dijkstra
\* the order of Python tuples (distance, node)
TupleLess(a, b) == a[1] < b[1] \/ (a[1] = b[1] /\ a[2] < b[2])

\* heapq.heappush: the queue is kept as the sorted sequence of its entries,
\* so that its head is the entry heappop returns
heappush(q, entry) ==
    LET below == Cardinality({x \in 1..Len(q) : TupleLess(q[x], entry)})
    IN  SubSeq(q, 1, below) \o <<entry>> \o SubSeq(q, below + 1, Len(q))

\* the largest entry instead of the smallest
heappopLargest(q) == <<q[Len(q)], SubSeq(q, 1, Len(q) - 1)>>

\* heapq.heappop: the smallest entry, and the queue without it
heappop(q) == <<Head(q), Tail(q)>>

\* graph[n].items(): a dict iterates in insertion order, and the building
\* loop inserts the neighbours of a node in the order of nodes
Items(g, ns, n) == SelectSeq(ns, LAMBDA d : d \in DOMAIN g[n])

\* line 55: if current_distance > distances[current_node]
IsStale(cd, best) == cd > best

\* the weight alone, the distance so far forgotten
CandidateWeightOnly(cd, weight) == weight

\* line 59: distance = current_distance + weight
Candidate(cd, weight) == cd + weight

\* a tie counts as an improvement
ImprovesOrTies(distance, best) == distance <= best

\* line 60: if distance < distances[neighbor]
Improves(distance, best) == distance < best

\* the link written the wrong way round
SetPreviousSwapped(prev, neighbor, cn) == [prev EXCEPT ![cn] = neighbor]

\* line 62: previous_nodes[neighbor] = current_node
SetPrevious(prev, neighbor, cn) == [prev EXCEPT ![neighbor] = cn]

\* lines 47-51, called from line 129
CallDijkstra ==
    /\ pc = "call_dijkstra"
    /\ distances' = [n \in (DOMAIN graph) \cup {start} |-> IF n = start THEN 0 ELSE Inf]
    /\ previous_nodes' = [n \in DOMAIN graph |-> None]
    /\ priority_queue' = <<<<0, start>>>>
    /\ dijkstra_calls' = dijkstra_calls + 1
    /\ pc' = "while"
    /\ UNCHANGED <<start, end, buildVars, current_distance, current_node, k,
                   expanded, walkVars, message>>

\* lines 53-58: one entry leaves the queue; a stale one is dropped, another
\* one starts the loop over the neighbours of its node
Pop ==
    /\ pc = "while"
    /\ priority_queue # <<>>
    /\ LET popped == heappop(priority_queue)
           cd == popped[1][1]
           cn == popped[1][2]
       IN  /\ priority_queue' = popped[2]
           /\ current_distance' = cd
           /\ current_node' = cn
           /\ IF IsStale(cd, distances[cn])
              THEN /\ pc' = "while"
                   /\ UNCHANGED <<k, expanded>>
              ELSE /\ pc' = IF Items(graph, nodes, cn) = <<>> THEN "while" ELSE "for"
                   /\ k' = 1
                   /\ expanded' = [expanded EXCEPT ![cn] = @ + 1]
    /\ UNCHANGED <<start, end, buildVars, distances, previous_nodes, walkVars,
                   message, dijkstra_calls>>

\* lines 58-63: one neighbour of current_node
Relax ==
    /\ pc = "for"
    /\ LET items == Items(graph, nodes, current_node)
           neighbor == items[k]
           weight == graph[current_node][neighbor]
           distance == Candidate(current_distance, weight)
       IN  /\ IF Improves(distance, distances[neighbor])
              THEN /\ distances' = [distances EXCEPT ![neighbor] = distance]
                   /\ previous_nodes' = SetPrevious(previous_nodes, neighbor, current_node)
                   /\ priority_queue' = heappush(priority_queue, <<distance, neighbor>>)
              ELSE UNCHANGED <<distances, previous_nodes, priority_queue>>
           /\ k' = k + 1
           /\ pc' = IF k < Len(items) THEN "for" ELSE "while"
    /\ UNCHANGED <<start, end, buildVars, current_distance, current_node,
                   expanded, walkVars, message, dijkstra_calls>>

\* lines 53, 65: the queue is empty
DijkstraReturn ==
    /\ pc = "while"
    /\ priority_queue = <<>>
    /\ pc' = "returned"
    /\ UNCHANGED <<start, end, buildVars, dijkVars, walkVars, message,
                   dijkstra_calls>>

\* -------------------------------------------------------- reconstruct_path
\* path.append(end)
PathAppend(p, e) == Append(p, e)

\* line 70: path.insert(0, end)
PathInsert(p, e) == <<e>> \o p

\* lines 67-72 as a function of its arguments: the loop of lines 69-71 from
\* the path p and the node e
RECURSIVE Walk(_, _, _)
Walk(prev_nodes, e, p) ==
    IF e = None THEN p ELSE Walk(prev_nodes, prev_nodes[e], PathInsert(p, e))
reconstruct_path(prev_nodes, e) == Walk(prev_nodes, e, <<>>)

\* line 130 and lines 67-68
CallReconstruct ==
    /\ pc = "returned"
    /\ path' = <<>>
    /\ rp_end' = end
    /\ pc' = "walk"
    /\ UNCHANGED <<start, end, buildVars, dijkVars, message, dijkstra_calls>>

\* lines 69-71
WalkStep ==
    /\ pc = "walk"
    /\ rp_end # None
    /\ Len(path) < MaxWalk
    /\ path' = PathInsert(path, rp_end)
    /\ rp_end' = previous_nodes[rp_end]
    /\ pc' = "walk"
    /\ UNCHANGED <<start, end, buildVars, dijkVars, message, dijkstra_calls>>

\* lines 69, 72
WalkReturn ==
    /\ pc = "walk"
    /\ rp_end = None
    /\ pc' = "report"
    /\ UNCHANGED <<start, end, buildVars, dijkVars, walkVars, message,
                   dijkstra_calls>>

\* > written for ==: no distance is above float('inf')
IsUnreachableNever(dist, e) == dist[e] > Inf

\* line 132: distances[end] == float('inf')
IsUnreachable(dist, e) == dist[e] = Inf

\* lines 132-136
Report ==
    /\ pc = "report"
    /\ message' = IF IsUnreachable(distances, end) THEN "nopath" ELSE "route"
    /\ pc' = "done"
    /\ UNCHANGED <<start, end, buildVars, dijkVars, walkVars, dijkstra_calls>>

\* ------------------------------------------------------------ run_analysis
Init ==
    /\ pc = "idle"
    /\ start = Blank /\ end = Blank
    /\ nodes = <<>>
    /\ graph = EmptyDict
    /\ i = 0 /\ j = 0
    /\ probed = NoProbes
    /\ lastProbe = "none"
    /\ distances = EmptyDict
    /\ previous_nodes = EmptyDict
    /\ priority_queue = <<>>
    /\ current_distance = 0
    /\ current_node = None
    /\ k = 0
    /\ expanded = [n \in Names |-> 0]
    /\ path = <<>>
    /\ rp_end = None
    /\ message = "none"
    /\ dijkstra_calls = 0

Next ==
    \/ \E s \in Names \cup {Blank}, e \in Names \cup {Blank} : RunAnalysis(s, e)
    \/ DiscoverFails
    \/ DiscoverRaises
    \/ \E ns \in NodeLists : Discover(ns)
    \/ SkipSelf
    \/ \E latency \in Weights : ProbeOk(latency)
    \/ ProbeNoAnswer
    \/ ProbeRaises
    \/ BuildReturn
    \/ Validate
    \/ CallDijkstra
    \/ Pop
    \/ Relax
    \/ DijkstraReturn
    \/ CallReconstruct
    \/ WalkStep
    \/ WalkReturn
    \/ Report

Spec == Init /\ [][Next]_vars

\* ---------------------------------- dijkstra as a function of its arguments
Pairs(ns) == {p \in Range(ns) \X Range(ns) : p[1] # p[2]}
EdgeSets(ns) == {E \in SUBSET Pairs(ns) : Cardinality(E) <= MaxEdges}
GraphOf(ns, E, wt) ==
    [s \in Range(ns) |-> [d \in {d \in Range(ns) : <<s, d>> \in E} |-> wt[<<s, d>>]]]

DijkInit ==
    /\ pc = "call_dijkstra"
    /\ nodes \in NodeLists \ {<<>>}
    /\ \E E \in EdgeSets(nodes) : \E wt \in [E -> Weights] : graph = GraphOf(nodes, E, wt)
    /\ start \in Range(nodes)
    /\ end = Blank
    /\ i = 0 /\ j = 0
    /\ probed = NoProbes
    /\ lastProbe = "none"
    /\ distances = EmptyDict
    /\ previous_nodes = EmptyDict
    /\ priority_queue = <<>>
    /\ current_distance = 0
    /\ current_node = None
    /\ k = 0
    /\ expanded = [n \in Names |-> 0]
    /\ path = <<>>
    /\ rp_end = None
    /\ message = "none"
    /\ dijkstra_calls = 0

DijkNext ==
    \/ CallDijkstra
    \/ Pop
    \/ Relax
    \/ DijkstraReturn

DijkSpec == DijkInit /\ [][DijkNext]_vars

\* dijkstra runs to its return once called: the loop is sequential code
DijkFairSpec == DijkSpec /\ WF_vars(DijkNext)

\* reconstruct_path on any predecessor table over the names
ReconInit ==
    /\ pc = "walk"
    /\ previous_nodes \in [Names -> Names \cup {None}]
    /\ rp_end \in Names
    /\ path = <<>>
    /\ nodes = Ascending(NumNodes)
    /\ graph = EmptyGraph(nodes)
    /\ start = Blank /\ end = Blank
    /\ i = 0 /\ j = 0
    /\ probed = NoProbes
    /\ lastProbe = "none"
    /\ distances = EmptyDict
    /\ priority_queue = <<>>
    /\ current_distance = 0
    /\ current_node = None
    /\ k = 0
    /\ expanded = [n \in Names |-> 0]
    /\ message = "none"
    /\ dijkstra_calls = 0

ReconNext == WalkStep \/ WalkReturn

ReconSpec == ReconInit /\ [][ReconNext]_vars

\* ============================================================= properties
Min(S) == CHOOSE x \in S : \A y \in S : x <= y

\* the nodes that directed paths of g lead to from the nodes of S
RECURSIVE ReachFrom(_, _)
ReachFrom(g, S) ==
    LET more == S \cup {d \in DOMAIN g : \E u \in S : d \in DOMAIN g[u]}
    IN  IF more = S THEN S ELSE ReachFrom(g, more)
Reachable(g, s, v) == v \in ReachFrom(g, {s})

\* the least total weight of the directed paths of at most n edges from s,
\* Inf where there is none
RECURSIVE LeastWeight(_, _, _)
LeastWeight(g, s, n) ==
    IF n = 0
    THEN [v \in DOMAIN g |-> IF v = s THEN 0 ELSE Inf]
    ELSE LET d == LeastWeight(g, s, n - 1)
         IN  [v \in DOMAIN g |->
                Min({d[v]} \cup {d[u] + g[u][v] :
                       u \in {u \in DOMAIN g : v \in DOMAIN g[u] /\ d[u] < Inf}})]
\* a least-weight path needs no node twice when no weight is negative
ShortestDistance(g, s) == LeastWeight(g, s, Cardinality(DOMAIN g) - 1)

\* from the initialisation of dijkstra on
InDijkstra == pc \in {"while", "for", "returned", "walk", "report", "done"} /\ dijkstra_calls > 0

\* C1: when dijkstra returns, distances[v] is the least total weight of the
\* directed paths from the source to v, and is infinite exactly when no
\* directed path leads from the source to v.
C1_ShortestDistances ==
    pc = "returned" =>
        \A v \in DOMAIN graph :
            /\ distances[v] = ShortestDistance(graph, start)[v]
            /\ (distances[v] = Inf) <=> ~Reachable(graph, start, v)

\* a returned run in which a longer path beats the direct edge
C1_Witness ==
    /\ pc = "returned"
    /\ \E v \in DOMAIN graph[start] : distances[v] < graph[start][v]

RECURSIVE SumWeights(_, _)
SumWeights(g, p) ==
    IF Len(p) < 2 THEN 0 ELSE g[p[1]][p[2]] + SumWeights(g, Tail(p))

\* C2: for every node v with a finite distance, reconstruct_path returns a
\* sequence from the source to v along edges of the graph whose weights add
\* up to distances[v].
C2_PathConsistent ==
    pc = "returned" =>
        \A v \in DOMAIN graph :
            distances[v] < Inf =>
                LET p == reconstruct_path(previous_nodes, v)
                IN  /\ p # <<>>
                    /\ p[1] = start
                    /\ p[Len(p)] = v
                    /\ \A x \in 1..(Len(p) - 1) : p[x + 1] \in DOMAIN graph[p[x]]
                    /\ SumWeights(graph, p) = distances[v]

\* a path of two edges is reconstructed for a node that the source also
\* reaches by a costlier direct edge
C2_Witness ==
    /\ pc = "returned"
    /\ \E v \in DOMAIN graph[start] :
         /\ distances[v] < graph[start][v]
         /\ Len(reconstruct_path(previous_nodes, v)) = 3

\* C5: from the initialisation of dijkstra to its return, distances[source]
\* is 0 and previous_nodes[source] is None.
C5_SourceFixed ==
    InDijkstra => distances[start] = 0 /\ previous_nodes[start] = None

\* a node at distance 0 with a zero-weight edge back to the source has had
\* its neighbours relaxed
C5_Witness ==
    /\ pc = "while"
    /\ \E u \in DOMAIN graph :
         /\ u # start
         /\ start \in DOMAIN graph[u]
         /\ graph[u][start] = 0
         /\ expanded[u] = 1

\* following previous_nodes from v reaches the source, no node met twice
RECURSIVE LeadsToSource(_, _)
LeadsToSource(v, seen) ==
    IF v = start THEN TRUE
    ELSE IF v \in seen \/ previous_nodes[v] = None THEN FALSE
         ELSE LeadsToSource(previous_nodes[v], seen \cup {v})

C3_KeysAreNodes ==
    /\ DOMAIN graph = Range(nodes)
    /\ \A n \in DOMAIN graph : n \notin DOMAIN graph[n]

\* a full node list whose last probe raised and left no edge at all
C3_Witness ==
    /\ pc = "built"
    /\ Len(nodes) = NumNodes
    /\ lastProbe = "raise"
    /\ EdgeCount(graph) = 0
    /\ DOMAIN graph = Names

\* the probe of the pair (src, dst) has been made once, and the graph holds
\* its edge exactly if it answered, with the latency it answered
ProbedOnce(src, dst) ==
    /\ Len(probed[<<src, dst>>]) = 1
    /\ (dst \in DOMAIN graph[src]) <=> probed[<<src, dst>>][1].ok
    /\ probed[<<src, dst>>][1].ok => graph[src][dst] = probed[<<src, dst>>][1].latency

\* C4: no pair is probed twice; an edge is in the graph exactly if the probe
\* of its pair answered, with that latency; and once nodes were discovered,
\* the construction returns, and the request ends, only after every ordered
\* pair of distinct nodes has been probed once, whichever probes gave no
\* answer or raised.
C4_EveryPairProbedOnce ==
    /\ pc \in {"probe", "built"} =>
         \A src \in Names, dst \in Names :
            LET log == probed[<<src, dst>>]
            IN  IF log = <<>>
                THEN src \in DOMAIN graph => dst \notin DOMAIN graph[src]
                ELSE /\ src # dst /\ src \in DOMAIN graph /\ dst \in DOMAIN graph
                     /\ ProbedOnce(src, dst)
    /\ (nodes # <<>> /\ pc \in {"built", "validate", "done"}) =>
         \A src \in DOMAIN graph, dst \in DOMAIN graph :
            src # dst => ProbedOnce(src, dst)

\* the loop over a full node list has ended with every pair probed once,
\* after probes that answered and a last probe that raised
C4_Witness ==
    /\ pc = "built"
    /\ Len(nodes) = NumNodes
    /\ lastProbe = "raise"
    /\ EdgeCount(graph) = MaxOk
    /\ \A src \in Names, dst \in Names : src # dst => Len(probed[<<src, dst>>]) = 1

\* C6: dijkstra and reconstruct_path run only with start and end being keys
\* of the built graph; a request whose graph lacks either ends with the
\* invalid-node message, dijkstra never called.
C6_ValidatedBeforeDijkstra ==
    /\ (dijkstra_calls > 0 \/ pc \in {"call_dijkstra", "while", "for", "returned", "walk", "report"}
          \/ path # <<>>)
         => (start \in DOMAIN graph /\ end \in DOMAIN graph)
    /\ (pc = "done" /\ message \notin {"incomplete", "exception"}
          /\ (start \notin DOMAIN graph \/ end \notin DOMAIN graph))
         => (message = "invalid" /\ dijkstra_calls = 0 /\ path = <<>>)

\* the request ended with the invalid-node message on an empty graph
C6_Witness ==
    /\ pc = "done"
    /\ message = "invalid"
    /\ DOMAIN graph = {}
    /\ dijkstra_calls = 0

\* C7: a destination that is a key of the graph and that no directed path
\* from the source reaches ends the analysis with "no path available":
\* its distance is infinite, its predecessor None, the reconstructed path the
\* destination alone, and no route is reported.
C7_UnreachableIsNoPath ==
    /\ (pc \in {"report", "done"} /\ dijkstra_calls > 0 /\ ~Reachable(graph, start, end)) =>
          /\ distances[end] = Inf
          /\ previous_nodes[end] = None
          /\ path = <<end>>
          /\ pc = "done" => message = "nopath"
    /\ message = "route" => Reachable(graph, start, end)

\* the source has an edge, the destination is cut off, "no path" was reported
C7_Witness ==
    /\ pc = "done"
    /\ message = "nopath"
    /\ DOMAIN graph[start] # {}
    /\ path = <<end>>

\* C8: the backward walk of reconstruct_path takes at most as many steps as
\* the predecessor table has nodes, a cycle among the links included.
C8_WalkBounded == Len(path) <= Cardinality(DOMAIN previous_nodes)

\* the entry about to be popped lies above the recorded distance of its node
StalePop ==
    /\ pc = "while"
    /\ priority_queue # <<>>
    /\ Head(priority_queue)[1] > distances[Head(priority_queue)[2]]
EntryCount(q, entry) == Cardinality({x \in 1..Len(q) : q[x] = entry})

\* C9: the dijkstra loop empties the queue and returns; an improvement adds
\* an entry and removes none, a popped entry above the recorded distance of
\* its node is dropped with no neighbour relaxed, and the neighbours of a node
\* are relaxed at most once.
C9_Terminates ==
    /\ <>(pc = "returned")
    /\ [](\A n \in Names : expanded[n] <= 1)
    /\ [][/\ StalePop =>
               (pc' = "while" /\ UNCHANGED <<distances, previous_nodes, expanded>>
                  /\ priority_queue' = Tail(priority_queue))
          /\ (pc = "for" /\ distances' # distances) =>
               (/\ Len(priority_queue') = Len(priority_queue) + 1
                /\ \A x \in 1..Len(priority_queue) :
                     EntryCount(priority_queue', priority_queue[x])
                       >= EntryCount(priority_queue, priority_queue[x]))]_vars

\* a superseded entry has just been popped and dropped
C9_Witness ==
    /\ pc = "while"
    /\ current_node # None
    /\ current_distance > distances[current_node]

====
